---- MODULE Spec2Model ----
(***************************************************************************)
(* Model of transduction/load_data.py of scGAT:                            *)
(*   - the epoch loop with early stopping, checkpoint saving/pruning and   *)
(*     the restore of the best checkpoint before testing (lines 352-392);  *)
(*   - ClusterData / ClusterLoader batching of a partitioned graph         *)
(*     (lines 73-228);                                                     *)
(*   - masked_nll_loss and masked_accuracy (lines 49-62).                  *)
(* Three specifications share the module: Spec (training script),          *)
(* SpecLoader (one pass of the ClusterLoader) and SpecMetric (the masked   *)
(* metrics).  FairSpec is Spec with the fairness of a sequential script.   *)
(***************************************************************************)
EXTENDS Integers, Sequences, FiniteSets, TLC

VARIABLES
  \* ---- training script (lines 352-392)
  nEpochs, patience, pc, epoch, loss_values, bad_counter, best, best_epoch,
  files, model, broke, restored, tested, trained, stale,
  \* ---- ClusterData / ClusterLoader (lines 73-228)
  data, partptr, batch_size, sampler, pos, batch, parts, delivered, lpc,
  \* ---- masked metrics (lines 49-62)
  output, labels, mask, acc, loss, mpc

trainVars == <<nEpochs, patience, pc, epoch, loss_values, bad_counter, best,
               best_epoch, files, model, broke, restored, tested, trained, stale>>
loaderVars == <<data, partptr, batch_size, sampler, pos, batch, parts, delivered, lpc>>
metricVars == <<output, labels, mask, acc, loss, mpc>>
vars == <<trainVars, loaderVars, metricVars>>

(***************************************************************************)
(* Bounds                                                                  *)
(***************************************************************************)
MaxEpochs == 3      \* nEpochs ranges over 0..MaxEpochs
MaxPatience == 2    \* patience ranges over -1..MaxPatience
MaxStale == 1       \* checkpoint files left by an earlier run: names in 0..MaxStale

Losses == 0 .. (MaxEpochs + 1)   \* values train(epoch) may return (order is all that matters)

(***************************************************************************)
(* Training script                                                         *)
(***************************************************************************)
InitParams == -1     \* parameters of the freshly constructed GAT()
StaleParams == -2    \* parameters stored in a checkpoint of an earlier run
NotTested == -3      \* compute_test() has not run

\* parameters of the model once train(e) has returned
ParamsAfter(e) == e

\* names (epoch numbers) of the checkpoint files '<n>-<replicate>.pkl' on disk
FileNames(f) == {p[1] : p \in f}

\* torch.save(model.state_dict(), '<e>-<replicate>.pkl'): creates or overwrites
SaveCheckpoint(f, e, m) == {p \in f : p[1] # e} \cup {<<e, m>>}

\* loss_values[-1] < best
Improved(l, b) == l < b

\* bad_counter == patience
ShouldBreak(bc, pat) == bc = pat

\* in-loop pruning: os.remove every file with epoch_nb < best_epoch
PruneBeforeOffByOne(f, be) == {p \in f : ~(p[1] <= be)}
PruneBefore(f, be) == {p \in f : ~(p[1] < be)}

\* post-loop cleanup: os.remove every file with epoch_nb > best_epoch
PruneAfter(f, be) == {p \in f : ~(p[1] > be)}

\* range(nEpochs) is exhausted
RangeExhaustedLate(e, n) == e > n
RangeExhausted(e, n) == e >= n

TrainIdle ==
  /\ nEpochs = 0 /\ patience = 0 /\ pc = "idle" /\ epoch = 0
  /\ loss_values = <<>> /\ bad_counter = 0 /\ best = 0 /\ best_epoch = 0
  /\ files = {} /\ model = InitParams /\ broke = FALSE /\ restored = FALSE
  /\ tested = NotTested /\ trained = <<>> /\ stale = {}

TrainInit ==
  /\ nEpochs \in 0 .. MaxEpochs
  /\ patience \in (0 - 1) .. MaxPatience
  /\ stale \in SUBSET (0 .. MaxStale)
  /\ files = {<<n, StaleParams>> : n \in stale}
  /\ model = InitParams
  /\ loss_values = <<>>
  /\ bad_counter = 0
  /\ best = nEpochs + 1
  /\ best_epoch = 0
  /\ epoch = 0
  /\ pc = "loop"
  /\ broke = FALSE /\ restored = FALSE /\ tested = NotTested /\ trained = <<>>

\* one iteration of `for epoch in range(nEpochs)` (lines 358-376)
LoopBody ==
  /\ pc = "loop"
  /\ ~RangeExhausted(epoch, nEpochs)
  /\ \E l \in Losses :
       LET m1 == ParamsAfter(epoch)
           f1 == SaveCheckpoint(files, epoch, m1)
           imp == Improved(l, best)
           b1 == IF imp THEN l ELSE best
           be1 == IF imp THEN epoch ELSE best_epoch
           bc1 == IF imp THEN 0 ELSE bad_counter + 1
       IN /\ loss_values' = Append(loss_values, l)
          /\ trained' = Append(trained, epoch)
          /\ model' = m1
          /\ best' = b1
          /\ best_epoch' = be1
          /\ bad_counter' = bc1
          /\ IF ShouldBreak(bc1, patience)
               THEN /\ broke' = TRUE
                    /\ files' = f1
                    /\ epoch' = epoch
                    /\ pc' = "cleanup"
               ELSE /\ broke' = FALSE
                    /\ files' = PruneBefore(f1, be1)
                    /\ epoch' = epoch + 1
                    /\ pc' = "loop"
  /\ UNCHANGED <<nEpochs, patience, restored, tested, stale>>
  /\ UNCHANGED <<loaderVars, metricVars>>

\* the for loop ends because range(nEpochs) is exhausted
LoopExit ==
  /\ pc = "loop"
  /\ RangeExhausted(epoch, nEpochs)
  /\ pc' = "cleanup"
  /\ UNCHANGED <<nEpochs, patience, epoch, loss_values, bad_counter, best,
                 best_epoch, files, model, broke, restored, tested, trained, stale>>
  /\ UNCHANGED <<loaderVars, metricVars>>

\* post-loop cleanup (lines 378-382)
Cleanup ==
  /\ pc = "cleanup"
  /\ files' = PruneAfter(files, best_epoch)
  /\ pc' = "restore"
  /\ UNCHANGED <<nEpochs, patience, epoch, loss_values, bad_counter, best,
                 best_epoch, model, broke, restored, tested, trained, stale>>
  /\ UNCHANGED <<loaderVars, metricVars>>

\* model.load_state_dict(torch.load('<best_epoch>-<replicate>.pkl')) (line 389)
Restore ==
  /\ pc = "restore"
  /\ \E p \in files :
       /\ p[1] = best_epoch
       /\ model' = p[2]
  /\ restored' = TRUE
  /\ pc' = "test"
  /\ UNCHANGED <<nEpochs, patience, epoch, loss_values, bad_counter, best,
                 best_epoch, files, broke, tested, trained, stale>>
  /\ UNCHANGED <<loaderVars, metricVars>>

\* torch.load raises FileNotFoundError: the script stops before compute_test()
RestoreFails ==
  /\ pc = "restore"
  /\ best_epoch \notin FileNames(files)
  /\ pc' = "crashed"
  /\ UNCHANGED <<nEpochs, patience, epoch, loss_values, bad_counter, best,
                 best_epoch, files, model, broke, restored, tested, trained, stale>>
  /\ UNCHANGED <<loaderVars, metricVars>>

\* compute_test() (line 392): evaluates the current parameters of model
Test ==
  /\ pc = "test"
  /\ tested' = model
  /\ pc' = "done"
  /\ UNCHANGED <<nEpochs, patience, epoch, loss_values, bad_counter, best,
                 best_epoch, files, model, broke, restored, trained, stale>>
  /\ UNCHANGED <<loaderVars, metricVars>>

(***************************************************************************)
(* ClusterData / ClusterLoader                                             *)
(***************************************************************************)
NumNodes == 3       \* nodes of the graph
MaxEdges == 2       \* at most this many edges in the graph
NumParts == 3       \* num_parts of ClusterData (parts may be empty)
BatchSize == 2      \* batch_size of ClusterLoader

Nodes == 0 .. (NumNodes - 1)
NodeKeys == {"x", "y", "train_mask", "val_mask", "test_mask"}

\* per-node attributes of the (permuted) graph; x identifies the node
NodeX(n) == 10 + n
NodeAttr(k, n) ==
  CASE k = "x" -> NodeX(n)
    [] k = "y" -> n % 2
    [] k = "train_mask" -> (n % 3 = 0)
    [] k = "val_mask" -> (n % 3 = 1)
    [] k = "test_mask" -> (n % 3 = 2)

Min2(a, b) == IF a < b THEN a ELSE b

\* ---- torch_sparse.SparseTensor operations used by the loader.
\* A sparse matrix is [nrows, ncols, nz] with nz the set of <<row, col>>.
\* SparseTensor.narrow(0, start, length)
SpNarrow0(A, start, length) ==
  [nrows |-> length, ncols |-> A.ncols,
   nz |-> {<<e[1] - start, e[2]>> : e \in {f \in A.nz : f[1] >= start /\ f[1] < start + length}}]

\* SparseTensor.narrow(1, start, length)
SpNarrow1(A, start, length) ==
  [nrows |-> A.nrows, ncols |-> length,
   nz |-> {<<e[1], e[2] - start>> : e \in {f \in A.nz : f[2] >= start /\ f[2] < start + length}}]

\* SparseTensor.t()
SpT(A) == [nrows |-> A.ncols, ncols |-> A.nrows, nz |-> {<<e[2], e[1]>> : e \in A.nz}]

\* torch_sparse.cat(list, dim=0)
RECURSIVE SpCat0(_)
SpCat0(As) ==
  IF Len(As) = 1 THEN As[1]
  ELSE LET H == SpCat0(SubSeq(As, 1, Len(As) - 1))
           L == As[Len(As)]
       IN [nrows |-> H.nrows + L.nrows, ncols |-> H.ncols,
           nz |-> H.nz \cup {<<e[1] + H.nrows, e[2]>> : e \in L.nz}]

\* torch.cat(list, dim=0) of dense per-node tensors
RECURSIVE DenseCatReversed(_)
DenseCatReversed(ts) == IF ts = <<>> THEN <<>> ELSE DenseCatReversed(Tail(ts)) \o Head(ts)
RECURSIVE DenseCat(_)
DenseCat(ts) == IF ts = <<>> THEN <<>> ELSE Head(ts) \o DenseCat(Tail(ts))

\* Tensor.narrow(0, start, length)
DenseNarrow(t, start, length) == SubSeq(t, start + 1, start + length)

\* item.size(0) of an attribute of a data object
Size0(k, item) == IF k = "adj" THEN item.nrows ELSE Len(item)

\* partptr[i] of the 0-based tensor partptr
PartPtrAt(i) == partptr[i + 1]

\* ClusterData.__len__
ClusterDataLen == Len(partptr) - 1

\* start, length of part idx (lines 133-134, 181-182, 202-203)
PartStart(idx) == PartPtrAt(idx)
PartLengthShort(idx) == IF PartPtrAt(idx + 1) - PartPtrAt(idx) > 1 THEN 1 ELSE PartPtrAt(idx + 1) - PartPtrAt(idx)
PartLength(idx) == PartPtrAt(idx + 1) - PartStart(idx)

\* the loop `for key, item in data: if item.size(0) == num_nodes: narrow(0, ...)`
NarrowNodeItems(d, start, length) ==
  [k \in DOMAIN d |->
     IF Size0(k, d[k]) = NumNodes
       THEN IF k = "adj" THEN SpNarrow0(d[k], start, length)
                         ELSE DenseNarrow(d[k], start, length)
       ELSE d[k]]

\* ClusterData.__getitem__: the sub-graph of part idx alone
ClusterDataGetItem(idx) ==
  LET d1 == NarrowNodeItems(data, PartStart(idx), PartLength(idx))
      a == SpNarrow1(d1.adj, PartStart(idx), PartLength(idx))
  IN [k \in NodeKeys |-> d1[k]] @@ [edge_index |-> a.nz]

\* ClusterLoader.HelperDataset.__getitem__: <<data, idx>>
HelperGetItem(idx) == <<NarrowNodeItems(data, PartStart(idx), PartLength(idx)), idx>>

\* the column narrowing of collate (lines 199-205), on the transposed adjacency
RECURSIVE ColumnBlocks(_, _)
ColumnBlocks(adjT, ps) ==
  IF ps = <<>> THEN <<>>
  ELSE <<SpNarrow0(adjT, PartStart(Head(ps)), PartLength(Head(ps)))>> \o ColumnBlocks(adjT, Tail(ps))

\* a collate that keeps only the edges inside each part (drops between-cluster links)
RECURSIVE DiagBlocks(_)
DiagBlocks(items) ==
  IF items = <<>> THEN <<>>
  ELSE LET A == SpNarrow1(Head(items)[1].adj, PartStart(Head(items)[2]), PartLength(Head(items)[2]))
       IN <<A>> \o DiagBlocks(Tail(items))
RECURSIVE BlockDiagEdges(_, _)
BlockDiagEdges(blocks, off) ==
  IF blocks = <<>> THEN {}
  ELSE {<<e[1] + off, e[2] + off>> : e \in Head(blocks).nz}
         \cup BlockDiagEdges(Tail(blocks), off + Head(blocks).nrows)

CollateKeys(items, adj, edges) ==
  LET data_list == [i \in 1 .. Len(items) |-> items[i][1]]
      ref == data_list[1]
  IN [k \in NodeKeys |->
        IF Size0(k, ref[k]) # ref.adj.nrows
          THEN ref[k]
          ELSE DenseCat([i \in 1 .. Len(data_list) |-> data_list[i][k]])]
     @@ [num_nodes |-> adj.nrows, edge_index |-> edges]

CollateIntraOnly(items) ==
  LET data_list == [i \in 1 .. Len(items) |-> items[i][1]]
      rows == SpCat0([i \in 1 .. Len(data_list) |-> data_list[i].adj])
  IN CollateKeys(items, [nrows |-> rows.nrows], BlockDiagEdges(DiagBlocks(items), 0))

\* ClusterLoader.collate (lines 192-224)
Collate(items) ==
  LET data_list == [i \in 1 .. Len(items) |-> items[i][1]]
      ps == [i \in 1 .. Len(items) |-> items[i][2]]
      rows == SpCat0([i \in 1 .. Len(data_list) |-> data_list[i].adj])
      adj == SpT(SpCat0(ColumnBlocks(SpT(rows), ps)))
  IN CollateKeys(items, adj, adj.nz)

NoBatch == [k \in NodeKeys |-> <<>>] @@ [num_nodes |-> 0, edge_index |-> {}]

\* all orders in which a RandomSampler may visit 0..n-1
Perms(n) == {s \in [1 .. n -> 0 .. (n - 1)] : \A i, j \in 1 .. n : i # j => s[i] # s[j]}

\* the indices of the next batch of the DataLoader (drop_last = False)
BatchIndices(s, p, bs) == SubSeq(s, p + 1, Min2(p + bs, Len(s)))

\* the graphs: at most MaxEdges directed edges between distinct nodes
EdgeSets == {S \in SUBSET {e \in Nodes \X Nodes : e[1] # e[2]} : Cardinality(S) <= MaxEdges}
PartPtrs ==
  {s \in [1 .. (NumParts + 1) -> 0 .. NumNodes] :
     /\ s[1] = 0 /\ s[NumParts + 1] = NumNodes
     /\ \A i \in 1 .. NumParts : s[i] <= s[i + 1]}

LoaderIdle ==
  /\ data = <<>> /\ partptr = <<0>> /\ batch_size = 1 /\ sampler = <<>> /\ pos = 0
  /\ batch = NoBatch /\ parts = <<>> /\ delivered = <<>> /\ lpc = "idle"

\* state after ClusterData(d, num_parts) and ClusterLoader(cd, batch_size, shuffle=True)
LoaderInit ==
  /\ \E E \in EdgeSets :
       data = [k \in NodeKeys |-> [i \in 1 .. NumNodes |-> NodeAttr(k, i - 1)]]
                @@ [adj |-> [nrows |-> NumNodes, ncols |-> NumNodes, nz |-> E]]
  /\ partptr \in PartPtrs
  /\ batch_size = BatchSize
  /\ sampler = <<>> /\ pos = 0 /\ batch = NoBatch /\ parts = <<>> /\ delivered = <<>>
  /\ lpc = "ready"

\* `for batch in cl` starts: the sampler draws an order of the part indices
StartPass ==
  /\ lpc = "ready"
  /\ sampler' \in Perms(ClusterDataLen)
  /\ pos' = 0 /\ batch' = NoBatch /\ parts' = <<>> /\ delivered' = <<>>
  /\ lpc' = "iterating"
  /\ UNCHANGED <<data, partptr, batch_size>>
  /\ UNCHANGED <<trainVars, metricVars>>

\* the loader yields its next batch: HelperDataset.__getitem__ per index, then collate
NextBatch ==
  /\ lpc = "iterating"
  /\ pos < Len(sampler)
  /\ LET idxs == BatchIndices(sampler, pos, batch_size)
         b == Collate([i \in 1 .. Len(idxs) |-> HelperGetItem(idxs[i])])
     IN /\ batch' = b
        /\ parts' = idxs
        /\ delivered' = Append(delivered, b.x)
        /\ pos' = pos + Len(idxs)
  /\ UNCHANGED <<data, partptr, batch_size, sampler, lpc>>
  /\ UNCHANGED <<trainVars, metricVars>>

\* the loader is exhausted (StopIteration)
EndPass ==
  /\ lpc = "iterating"
  /\ pos >= Len(sampler)
  /\ lpc' = "exhausted"
  /\ UNCHANGED <<data, partptr, batch_size, sampler, pos, batch, parts, delivered>>
  /\ UNCHANGED <<trainVars, metricVars>>

(***************************************************************************)
(* masked_nll_loss / masked_accuracy                                       *)
(***************************************************************************)
MetricNodes == 3    \* rows of output / labels / mask
NumClasses == 2     \* columns of output

MNodes == 1 .. MetricNodes
Classes == 0 .. (NumClasses - 1)
\* the entries of output (log-probabilities): a likely and an unlikely class
LogProbs == {0 - 1, 0}
\* batch.y: the classes in turn along the nodes
Labels == [i \in MNodes |-> (i - 1) % NumClasses]
OutputRows == [1 .. NumClasses -> LogProbs]

\* ---- exact arithmetic on the floating point values: <<numerator, denominator>>
\* in lowest terms with a positive denominator; <<0, 0>> is nan (0 / 0)
Abs(a) == IF a < 0 THEN 0 - a ELSE a
RECURSIVE Gcd(_, _)
Gcd(a, b) == IF b = 0 THEN a ELSE Gcd(b, a % b)
NaN == <<0, 0>>
Frac(n, d) ==
  IF d = 0 THEN NaN
  ELSE LET g == Gcd(Abs(n), Abs(d))
           sg == IF d < 0 THEN 0 - 1 ELSE 1
       IN <<(sg * n) \div g, (sg * d) \div g>>
FInt(n) == <<n, 1>>
FIsNaN(a) == a[2] = 0
FAdd(a, b) == IF FIsNaN(a) \/ FIsNaN(b) THEN NaN ELSE Frac(a[1] * b[2] + b[1] * a[2], a[2] * b[2])
FMul(a, b) == IF FIsNaN(a) \/ FIsNaN(b) THEN NaN ELSE Frac(a[1] * b[1], a[2] * b[2])
FDiv(a, b) == IF FIsNaN(a) \/ FIsNaN(b) THEN NaN ELSE Frac(a[1] * b[2], a[2] * b[1])

\* torch.sum of a vector
RECURSIVE FSum(_)
FSum(v) == IF v = <<>> THEN FInt(0) ELSE FAdd(Head(v), FSum(Tail(v)))

\* output.max(1)[1] for one row: the index of the maximal entry (the first on ties)
ArgMax(row) ==
  CHOOSE c \in Classes :
    /\ \A c2 \in Classes : row[c2 + 1] <= row[c + 1]
    /\ \A c2 \in Classes : c2 < c => row[c2 + 1] < row[c + 1]

\* F.nll_loss(logits, labels, reduction='none')
NllLoss(logits, labs) == [i \in 1 .. Len(logits) |-> FInt(0 - logits[i][labs[i] + 1])]

\* mask.type(torch.float)
MaskFloat(m) == [i \in 1 .. Len(m) |-> FInt(IF m[i] THEN 1 ELSE 0)]

masked_nll_loss_unscaled(logits, labs, m) ==
  LET l0 == NllLoss(logits, labs)
      mf == MaskFloat(m)
      l1 == [i \in 1 .. Len(l0) |-> FMul(l0[i], mf[i])]
  IN FDiv(FSum(l1), FInt(Len(l1)))

\* masked_nll_loss (lines 49-54)
masked_nll_loss(logits, labs, m) ==
  LET l0 == NllLoss(logits, labs)
      mf == MaskFloat(m)
      scale == FDiv(FSum(mf), FInt(Len(mf)))
      m1 == [i \in 1 .. Len(mf) |-> FDiv(mf[i], scale)]
      l1 == [i \in 1 .. Len(l0) |-> FMul(l0[i], m1[i])]
  IN FDiv(FSum(l1), FInt(Len(l1)))

masked_accuracy_all_nodes(out, labs, m) ==
  LET preds == [i \in 1 .. Len(out) |-> ArgMax(out[i])]
      correct == [i \in 1 .. Len(out) |-> FInt(IF preds[i] = labs[i] THEN 1 ELSE 0)]
  IN FDiv(FSum(correct), FSum(MaskFloat(m)))

\* masked_accuracy (lines 56-62)
masked_accuracy(out, labs, m) ==
  LET preds == [i \in 1 .. Len(out) |-> ArgMax(out[i])]
      correct == [i \in 1 .. Len(out) |-> FInt(IF preds[i] = labs[i] THEN 1 ELSE 0)]
      masked == [i \in 1 .. Len(out) |-> FMul(correct[i], MaskFloat(m)[i])]
  IN FDiv(FSum(masked), FSum(MaskFloat(m)))

MetricIdle ==
  /\ output = <<>> /\ labels = <<>> /\ mask = <<>> /\ acc = NaN /\ loss = NaN /\ mpc = "idle"

\* a batch reaches the body of the loop of train(): output = model(batch), batch.y, batch.train_mask
MetricInit ==
  /\ output \in [MNodes -> OutputRows]
  /\ labels = Labels
  /\ mask \in [MNodes -> BOOLEAN]
  /\ acc = NaN /\ loss = NaN
  /\ mpc = "output"

\* loss = masked_nll_loss(output, batch.y, batch.train_mask) (line 316)
ComputeLoss ==
  /\ mpc = "output"
  /\ loss' = masked_nll_loss(output, labels, mask)
  /\ mpc' = "loss"
  /\ UNCHANGED <<output, labels, mask, acc>>
  /\ UNCHANGED <<trainVars, loaderVars>>

\* masked_accuracy(output, batch.y, batch.train_mask) (line 322)
ComputeAccuracy ==
  /\ mpc = "loss"
  /\ acc' = masked_accuracy(output, labels, mask)
  /\ mpc' = "acc"
  /\ UNCHANGED <<output, labels, mask, loss>>
  /\ UNCHANGED <<trainVars, loaderVars>>

(***************************************************************************)
(* Specifications                                                          *)
(***************************************************************************)
Init == TrainInit /\ LoaderIdle /\ MetricIdle
Next == LoopBody \/ LoopExit \/ Cleanup \/ Restore \/ RestoreFails \/ Test
Spec == Init /\ [][Next]_vars
\* the script is one sequential program: it keeps running until it ends
FairSpec == Spec /\ WF_vars(Next)

InitLoader == TrainIdle /\ LoaderInit /\ MetricIdle
NextLoader == StartPass \/ NextBatch \/ EndPass
SpecLoader == InitLoader /\ [][NextLoader]_vars

InitMetric == TrainIdle /\ LoaderIdle /\ MetricInit
NextMetric == ComputeLoss \/ ComputeAccuracy
SpecMetric == InitMetric /\ [][NextMetric]_vars

(***************************************************************************)
(* Properties of the training script                                       *)
(***************************************************************************)
LoopEnded == pc \in {"cleanup", "restore", "test", "done", "crashed"}
EpochsRun == Len(loss_values)

\* the lowest loss of the epochs run, and the first epoch that reached it
LowestLoss == CHOOSE l \in {loss_values[k] : k \in 1 .. EpochsRun} :
                \A k \in 1 .. EpochsRun : l <= loss_values[k]
EarliestLowest == CHOOSE e \in 0 .. (EpochsRun - 1) :
                    /\ loss_values[e + 1] = LowestLoss
                    /\ \A k \in 1 .. e : loss_values[k] # LowestLoss

\* the value of `best` when epoch k (0-based) starts, recomputed from the losses
RunningBest(k) ==
  LET prior == {nEpochs + 1} \cup {loss_values[j] : j \in 1 .. k}
  IN CHOOSE b \in prior : \A c \in prior : b <= c
FailedToImprove(k) == ~(loss_values[k + 1] < RunningBest(k))

\* the loss failed to improve in each of the last `patience` epochs run
LastPatienceFailed ==
  /\ patience >= 0
  /\ EpochsRun >= patience
  /\ \A k \in (EpochsRun - patience) .. (EpochsRun - 1) : FailedToImprove(k)

\* C1: for nEpochs >= 1, once the epoch loop has ended the checkpoint of
\* best_epoch exists and holds the parameters saved at the end of epoch
\* best_epoch; the restore succeeds, compute_test() runs only after it and
\* uses exactly those parameters.
C1_RestoresBestCheckpoint ==
  nEpochs >= 1 =>
    /\ pc \in {"cleanup", "restore"} => <<best_epoch, ParamsAfter(best_epoch)>> \in files
    /\ LoopEnded => best_epoch \in 0 .. (EpochsRun - 1)
    /\ pc # "crashed"
    /\ pc = "test" => model = ParamsAfter(best_epoch)
    /\ pc = "done" => tested = ParamsAfter(best_epoch)
    /\ tested # NotTested => restored /\ pc = "done"
    /\ ~restored => tested = NotTested

\* a run that trained past its best epoch, over a stale checkpoint of the same
\* name, stopped early and tested the parameters of the best epoch
C1_Witness ==
  /\ pc = "done" /\ broke
  /\ best_epoch < EpochsRun - 1
  /\ best_epoch \in stale
  /\ tested = ParamsAfter(best_epoch)
  /\ tested # ParamsAfter(EpochsRun - 1)

\* C2: when the epoch loop ends after at least one epoch, best is the lowest
\* loss of the epochs run and best_epoch the earliest epoch that reached it.
C2_BestIsLowestLoss ==
  (LoopEnded /\ EpochsRun >= 1) =>
    /\ best = LowestLoss
    /\ best_epoch = EarliestLowest

\* C3: the loop breaks at the end of an epoch exactly when the loss failed to
\* strictly improve on the running best in each of the last `patience` epochs;
\* an improving epoch resets bad_counter, a tie counts as no improvement, and
\* nothing is trained after the break.
C3_BreakExactlyAfterPatience ==
  EpochsRun >= 1 =>
    /\ broke <=> LastPatienceFailed
    /\ broke <=> bad_counter = patience
    /\ ~FailedToImprove(EpochsRun - 1) => bad_counter = 0
    /\ loss_values[EpochsRun] = RunningBest(EpochsRun - 1) => bad_counter >= 1
    /\ broke => pc # "loop"
    /\ broke => FileNames(files) \subseteq (0 .. (EpochsRun - 1)) \cup stale

\* C6: the loop trains epochs 0, 1, 2, ... in order, one per iteration, at most
\* nEpochs of them, and the script always gets to the restore-and-test step.
C6_LoopTerminates ==
  /\ [](Len(trained) <= nEpochs /\ \A i \in 1 .. Len(trained) : trained[i] = i - 1)
  /\ [][Len(trained') <= Len(trained) + 1]_vars
  /\ <>(pc = "restore")

\* every epoch was trained although patience can never be reached
C6_Witness ==
  /\ pc = "restore" /\ ~broke
  /\ patience <= 0
  /\ nEpochs >= 2
  /\ trained = [i \in 1 .. nEpochs |-> i - 1]

\* C8: with no checkpoint of this replicate on disk before the run, after each
\* iteration that does not break the files are exactly those of epochs
\* best_epoch..epoch, and after the post-loop cleanup exactly the file of
\* best_epoch remains.
C8_OnlyBestCheckpointRemains ==
  stale = {} =>
    /\ (pc = "loop" /\ EpochsRun >= 1) => FileNames(files) = best_epoch .. (EpochsRun - 1)
    /\ pc \in {"restore", "test", "done", "crashed"} => FileNames(files) = {best_epoch}

(***************************************************************************)
(* Properties of ClusterData / ClusterLoader                               *)
(***************************************************************************)
\* the nodes of part i of the permuted graph: [partptr[i], partptr[i+1])
PartNodes(i) == {n \in Nodes : partptr[i + 1] <= n /\ n < partptr[i + 2]}
PartIds == 0 .. (Len(partptr) - 2)

\* the nodes of the selected parts, in batch order
RECURSIVE BatchNodes(_)
BatchNodes(ps) ==
  IF ps = <<>> THEN <<>>
  ELSE LET a == partptr[Head(ps) + 1]
           b == partptr[Head(ps) + 2]
       IN [i \in 1 .. (b - a) |-> a + i - 1] \o BatchNodes(Tail(ps))

HasBatch == lpc = "iterating" /\ parts # <<>>
BatchLocal == 0 .. (batch.num_nodes - 1)

\* C4: the edges of a batch are exactly the edges of the partitioned graph with
\* both endpoints in the selected parts (between different selected parts
\* included), renumbered to batch-local positions in [0, num_nodes).
C4_BatchKeepsInterClusterEdges ==
  HasBatch =>
    LET bn == BatchNodes(parts)
    IN /\ batch.edge_index =
            {<<i - 1, j - 1>> : <<i, j>> \in
               {q \in (1 .. Len(bn)) \X (1 .. Len(bn)) : <<bn[q[1]], bn[q[2]]>> \in data.adj.nz}}
       /\ batch.edge_index \subseteq BatchLocal \X BatchLocal
       /\ \A e \in data.adj.nz :
            (\E i, j \in 1 .. Len(bn) : bn[i] = e[1] /\ bn[j] = e[2])
              <=> (\E i, j \in 1 .. Len(bn) :
                     bn[i] = e[1] /\ bn[j] = e[2] /\ <<i - 1, j - 1>> \in batch.edge_index)

\* a batch of two parts, taken out of partition order, that carries an edge
\* between the two parts while another edge of the graph leaves the batch
C4_Witness ==
  /\ HasBatch /\ Len(parts) = 2 /\ parts[1] > parts[2]
  /\ \E e \in batch.edge_index :
       /\ e[1] < PartLength(parts[1])
       /\ e[2] >= PartLength(parts[1])
  /\ \E e \in data.adj.nz : \E i \in PartIds :
       /\ e[1] \in PartNodes(i) \/ e[2] \in PartNodes(i)
       /\ i # parts[1] /\ i # parts[2]

\* number of rows equal to v in the batches delivered so far
RECURSIVE CountIn(_, _)
CountIn(v, t) == IF t = <<>> THEN 0 ELSE (IF Head(t) = v THEN 1 ELSE 0) + CountIn(v, Tail(t))
Occurrences(v) == CountIn(v, DenseCat(delivered))

\* C5: ClusterData has partptr.numel() - 1 parts, part i is the node range
\* [partptr[i], partptr[i+1]), the ranges are disjoint and cover the nodes, and
\* one pass of the loader delivers every node in exactly one batch, once.
C5_EveryNodeOncePerPass ==
  /\ lpc = "ready" =>
       /\ \A i \in PartIds :
            ClusterDataGetItem(i).x = [k \in 1 .. Cardinality(PartNodes(i)) |-> NodeX(partptr[i + 1] + k - 1)]
       /\ \A i, j \in PartIds : i # j => PartNodes(i) \cap PartNodes(j) = {}
       /\ UNION {PartNodes(i) : i \in PartIds} = Nodes
  /\ lpc \in {"iterating", "exhausted"} =>
       /\ Len(sampler) = ClusterDataLen
       /\ \A n \in Nodes : Occurrences(NodeX(n)) <= 1
  /\ lpc = "exhausted" =>
       \A n \in Nodes :
         /\ Occurrences(NodeX(n)) = 1
         /\ Cardinality({b \in 1 .. Len(delivered) : CountIn(NodeX(n), delivered[b]) = 1}) = 1

\* a finished pass of several batches over a partition with a part of two nodes
C5_Witness ==
  /\ lpc = "exhausted"
  /\ Len(delivered) >= 2
  /\ \E i \in PartIds : Cardinality(PartNodes(i)) >= 2
  /\ \E b \in 1 .. Len(delivered) : Len(delivered[b]) >= 2

\* the node that row i (0-based) of the batch holds, read off its x row
RowNode(i) == batch.x[i + 1] - NodeX(0)

\* C9: num_nodes of a batch is the sum of the sizes of its parts, every
\* per-node attribute has num_nodes rows, and row i of each attribute belongs
\* to the node that batch-local index i of edge_index stands for.
C9_BatchRowsAlignWithEdges ==
  HasBatch =>
    LET bn == BatchNodes(parts)
    IN /\ batch.num_nodes = Len(bn)
       /\ \A k \in NodeKeys :
            /\ Len(batch[k]) = batch.num_nodes
            /\ \A i \in 1 .. Len(batch[k]) : batch[k][i] = NodeAttr(k, bn[i])
       /\ \A e \in batch.edge_index : <<RowNode(e[1]), RowNode(e[2])>> \in data.adj.nz
       /\ \A i, j \in BatchLocal :
            <<RowNode(i), RowNode(j)>> \in data.adj.nz => <<i, j>> \in batch.edge_index

\* a batch of two non-empty parts with an edge between its first and last row
C9_Witness ==
  /\ HasBatch /\ Len(parts) = 2
  /\ PartLength(parts[1]) >= 1 /\ PartLength(parts[2]) >= 1
  /\ batch.num_nodes >= 2
  /\ <<0, batch.num_nodes - 1>> \in batch.edge_index
  /\ RowNode(0) # 0

(***************************************************************************)
(* Properties of the masked metrics                                        *)
(***************************************************************************)
Selected == {i \in MNodes : mask[i]}
RECURSIVE SumNll(_)
SumNll(S) ==
  IF S = {} THEN 0
  ELSE LET i == CHOOSE j \in S : TRUE
       IN (0 - output[i][labels[i] + 1]) + SumNll(S \ {i})

\* C7: for a mask selecting at least one node, masked_accuracy is the number of
\* selected nodes whose arg-max prediction equals their label divided by the
\* number of selected nodes, and no prediction on an unselected node changes it.
C7_MaskedAccuracyIsRatio ==
  (mpc = "acc" /\ Selected # {}) =>
    /\ acc = Frac(Cardinality({i \in Selected : ArgMax(output[i]) = labels[i]}),
                  Cardinality(Selected))
    /\ \A i \in MNodes \ Selected : \A row \in OutputRows :
         masked_accuracy([output EXCEPT ![i] = row], labels, mask) = acc

\* a partial mask, an unselected node predicted right, a selected one wrong
C7_Witness ==
  /\ mpc = "acc"
  /\ Selected # {} /\ Selected # MNodes
  /\ \E i \in MNodes \ Selected : ArgMax(output[i]) = labels[i]
  /\ \E i \in Selected : ArgMax(output[i]) # labels[i]
  /\ \E i \in Selected : ArgMax(output[i]) = labels[i]
  /\ acc[1] > 0 /\ acc[2] > 1

\* C10: for a mask selecting at least one node, masked_nll_loss is the sum of
\* the per-node losses of the selected nodes divided by their number: the node
\* count N cancels and unselected nodes contribute nothing.
C10_MaskedLossIsMaskedMean ==
  (mpc \in {"loss", "acc"} /\ Selected # {}) =>
    loss = Frac(SumNll(Selected), Cardinality(Selected))

\* a partial mask with a positive loss on a selected and on an unselected node
C10_Witness ==
  /\ mpc = "loss"
  /\ Selected # {} /\ Selected # MNodes
  /\ \E i \in Selected : output[i][labels[i] + 1] < 0
  /\ \E i \in MNodes \ Selected : output[i][labels[i] + 1] < 0
  /\ loss[1] > 0

====
